---------------------------- MODULE Spec2Model ----------------------------
(***************************************************************************)
(* Fork-join examples of the OpenCilk tutorial (fib, sample_qsort,         *)
(* nqueens) run by a work-stealing scheduler, and the ctimer.h timespec    *)
(* arithmetic.                                                             *)
(*                                                                         *)
(* An activation of a function is a frame.  Frames are named by their path *)
(* in the invocation tree: the root call is <<>>, the k-th child of frame  *)
(* f is Append(f, k).  A worker runs one frame at a time; cilk_spawn       *)
(* pushes the continuation of the spawning frame on the tail of the        *)
(* worker's deque and the worker goes on with the child; an idle worker    *)
(* steals the continuation at the head of another worker's deque.          *)
(***************************************************************************)
EXTENDS Integers, Sequences, FiniteSets, TLC

VARIABLES
    prog,      \* which example runs: "fib", "qsort", "qsort_wsp", "nqueens", "time"
    input,     \* argument of the root call: n of fib and nqueens, the array of qsort
    nw,        \* number of workers of the pool
    frames,    \* frame id -> activation record
    wcur,      \* worker -> the frame it runs, or NoFrame when it is idle
    deque,     \* worker -> its deque of stealable continuations (head = oldest)
    result,    \* what the root call returned: <<>> before it returns, <<v>> after
    arr,       \* the array a of the quicksort harness (arr[i + 1] is a[i])
    failCount, \* failCount of the quicksort harness
    mainpc,    \* where main is: "run", "check" (quicksort's sortedness loop), "exit"
    t_end,     \* timespec arithmetic: the end time stamp
    t_start,   \* the start time stamp
    t_diff,    \* output of timespec_sub
    t_sum,     \* output of timespec_add
    tpc,       \* next timespec operation: "sub", "add", "done"
    conv,      \* a time stamp, its integer conversions and the next one to compute
    timer,     \* the ctimer_t stopwatch: its start, end and elapsed time stamps
    clock,     \* CLOCK_MONOTONIC: the last reading clock_gettime gave
    on_stop,   \* TRUE when the build defines CTIMER_MEASURE_ON_STOP
    op,        \* the last stopwatch function called, "none" before the first
    nlap,      \* ctimer_lap calls since elapsed was last overwritten
    acc,       \* history: progress of reset, (start, stop, lap)* and the exact sum
    hist,      \* history: whether start and end are a pair, and elapsed was set
    dpc,       \* position of the fib driver's main around its stopwatch
    report     \* what ctimer_print wrote: <<>> before, <<elapsed>> after

fjvars == <<prog, input, nw, frames, wcur, deque, result, arr, failCount, mainpc>>
swvars == <<timer, clock, on_stop, op, nlap, acc, hist, dpc, report>>
tsvars == <<t_end, t_start, t_diff, t_sum, tpc, conv, swvars>>
vars == <<fjvars, tsvars>>

\* ------------------------------------------------------------------ bounds
MaxWorkers == 2
MaxPool == 4
MaxFibN == 4
MaxLen == 3
MaxVal == 2
MaxQueens == 2
MaxBoard == 4
MaxSec == 2
MaxNsecStep == 1
MaxClockSec == 1
MaxLaps == 3

\* ------------------------------------------------------------- frame names
Root == <<>>
NoFrame == <<0>>
Undef == -1

Parent(f) == SubSeq(f, 1, Len(f) - 1)
Idx(f) == f[Len(f)]
Child(f, k) == Append(f, k)
Workers == 1..nw
Live == DOMAIN frames

\* What a read of a memory slot can give: its value, or anything when the slot
\* was never written.
Garbage == {0, 1}
ReadSlot(v) == IF v = Undef THEN Garbage ELSE {v}

\* The scheduler's part of an activation record: kind (root, spawned or called),
\* the program counter pc, the status st ("run" on a worker, "cont" as a
\* continuation in a deque, "susp" suspended at a sync, "call" waiting for a
\* callee, "done"), the number of spawned children outstanding, and counters
\* kept for the analysis: spawns issued (nsp), continuations resumed (nres),
\* continuations stolen (nstl), and the value returned (rv).
Ctl(kind) ==
    [kind |-> kind, pc |-> "entry", st |-> "run", pending |-> 0, nsp |-> 0,
     nres |-> 0, nstl |-> 0, rv |-> Undef]

\* --------------------------------------------------------------- scheduler
\* The result slot of the parent that a returning child's value goes to:
\* x or y of fib, count[i] of nqueens; sample_qsort returns nothing.
FibStore(rec, k, v) == IF k = 1 THEN [rec EXCEPT !.x = v] ELSE [rec EXCEPT !.y = v]

NqStore(rec, k, v) == [rec EXCEPT !.count[k] = v]

Store(rec, k, v) ==
    IF prog = "fib" THEN FibStore(rec, k, v)
    ELSE IF prog = "nqueens" THEN NqStore(rec, k, v)
    ELSE rec

\* Number of places that hold frame f as something to run: the workers running
\* it and the deque entries naming it.
Holders(f) ==
    Cardinality({w \in Workers : wcur[w] = f})
    + Cardinality(UNION {{<<w, i>> : i \in {k \in 1..Len(deque[w]) : deque[w][k] = f}} :
                           w \in Workers})

\* cilk_spawn: worker w, running f, creates child c; the continuation of f
\* (record frec) goes to the tail of w's deque and w runs the child.
Spawn(w, f, c, crec, frec) ==
    /\ frames' = (c :> crec) @@
                 [frames EXCEPT ![f] = [frec EXCEPT !.st = "cont", !.pending = @ + 1,
                                                    !.nsp = @ + 1]]
    /\ deque' = [deque EXCEPT ![w] = Append(@, f)]
    /\ wcur' = [wcur EXCEPT ![w] = c]
    /\ UNCHANGED <<prog, input, nw, result, arr, failCount, mainpc, tsvars>>

\* An ordinary call: w runs the callee; the caller waits for its return and
\* nothing becomes stealable.
Call(w, f, c, crec, frec) ==
    /\ frames' = (c :> crec) @@ [frames EXCEPT ![f] = [frec EXCEPT !.st = "call"]]
    /\ wcur' = [wcur EXCEPT ![w] = c]
    /\ UNCHANGED <<prog, input, nw, deque, result, arr, failCount, mainpc, tsvars>>

\* A step of f that stays in f.
Goto(w, f, rec) ==
    /\ frames' = [frames EXCEPT ![f] = rec]
    /\ UNCHANGED <<prog, input, nw, wcur, deque, result, arr, failCount, mainpc, tsvars>>

\* A step of f that stays in f and leaves the array as a.
Write(w, f, rec, a) ==
    /\ frames' = [frames EXCEPT ![f] = rec]
    /\ arr' = a
    /\ UNCHANGED <<prog, input, nw, wcur, deque, result, failCount, mainpc, tsvars>>

\* cilk_sync that always gives up the worker: the frame is suspended even when
\* no child is outstanding.
SyncYields(w, f, nextpc) ==
    /\ frames' = [frames EXCEPT ![f].st = "susp"]
    /\ wcur' = [wcur EXCEPT ![w] = NoFrame]
    /\ UNCHANGED <<prog, input, nw, deque, result, arr, failCount, mainpc, tsvars>>

\* cilk_sync: with no child outstanding the frame goes on; otherwise it is
\* suspended and its worker becomes a thief.
Sync(w, f, nextpc) ==
    IF frames[f].pending = 0
    THEN Goto(w, f, [frames[f] EXCEPT !.pc = nextpc])
    ELSE /\ frames' = [frames EXCEPT ![f].st = "susp"]
         /\ wcur' = [wcur EXCEPT ![w] = NoFrame]
         /\ UNCHANGED <<prog, input, nw, deque, result, arr, failCount, mainpc, tsvars>>

\* The frame has returned v.
Done(rec, v) == [rec EXCEPT !.pc = "done", !.st = "done", !.rv = v]

\* Return of the root call to main: the quicksort harness goes on to its
\* sortedness loop, the other drivers print and exit.
ReturnRoot(w, f, v) ==
    /\ frames' = [frames EXCEPT ![f] = Done(@, v)]
    /\ wcur' = [wcur EXCEPT ![w] = NoFrame]
    /\ result' = <<v>>
    /\ mainpc' = IF prog \in {"qsort", "qsort_wsp"} THEN "check" ELSE "exit"
    /\ UNCHANGED <<prog, input, nw, deque, arr, failCount, tsvars>>

\* Return of a called frame: its worker goes on with the caller.
ReturnCalled(w, f, v) ==
    LET p == Parent(f) IN
    /\ frames' = [frames EXCEPT ![f] = Done(@, v),
                                ![p] = [Store(@, Idx(f), v) EXCEPT !.st = "run"]]
    /\ wcur' = [wcur EXCEPT ![w] = p]
    /\ UNCHANGED <<prog, input, nw, deque, result, arr, failCount, mainpc, tsvars>>

\* Return of a spawned frame with a lost wake-up: a parent suspended at its sync
\* is never resumed by its last child.
ReturnSpawnedNoWake(w, f, v) ==
    LET p == Parent(f)
        q == deque[w]
        prec == [Store(frames[p], Idx(f), v) EXCEPT !.pending = @ - 1]
        popped == q # <<>> /\ q[Len(q)] = p
    IN
    /\ frames' = [frames EXCEPT
                    ![f] = Done(@, v),
                    ![p] = IF popped THEN [prec EXCEPT !.st = "run", !.nres = @ + 1]
                           ELSE prec]
    /\ deque' = IF popped THEN [deque EXCEPT ![w] = SubSeq(q, 1, Len(q) - 1)]
                ELSE deque
    /\ wcur' = [wcur EXCEPT ![w] = IF popped THEN p ELSE NoFrame]
    /\ UNCHANGED <<prog, input, nw, result, arr, failCount, mainpc, tsvars>>

\* Return of a spawned frame: the value goes to the parent's slot and the
\* parent has one child less outstanding.  The worker pops the parent's
\* continuation from the tail of its own deque when it is still there; when it
\* was stolen, the worker resumes the parent only if the parent is suspended at
\* its sync and this was its last outstanding child, and else becomes a thief.
ReturnSpawned(w, f, v) ==
    LET p == Parent(f)
        q == deque[w]
        prec == [Store(frames[p], Idx(f), v) EXCEPT !.pending = @ - 1]
        popped == q # <<>> /\ q[Len(q)] = p
        joined == ~popped /\ frames[p].st = "susp" /\ prec.pending = 0
    IN
    /\ frames' = [frames EXCEPT
                    ![f] = Done(@, v),
                    ![p] = IF popped THEN [prec EXCEPT !.st = "run", !.nres = @ + 1]
                           ELSE IF joined THEN [prec EXCEPT !.st = "run"]
                           ELSE prec]
    /\ deque' = IF popped THEN [deque EXCEPT ![w] = SubSeq(q, 1, Len(q) - 1)]
                ELSE deque
    /\ wcur' = [wcur EXCEPT ![w] = IF popped \/ joined THEN p ELSE NoFrame]
    /\ UNCHANGED <<prog, input, nw, result, arr, failCount, mainpc, tsvars>>

Return(w, f, v) ==
    IF frames[f].kind = "root" THEN ReturnRoot(w, f, v)
    ELSE IF frames[f].kind = "call" THEN ReturnCalled(w, f, v)
    ELSE ReturnSpawned(w, f, v)

\* Steal with a lost race: the thief takes the head of v's deque and the entry
\* stays there for v (or another thief) to take again.
StealNoRemove(t, v) ==
    /\ t # v
    /\ wcur[t] = NoFrame
    /\ deque[v] # <<>>
    /\ LET f == Head(deque[v]) IN
       /\ wcur' = [wcur EXCEPT ![t] = f]
       /\ frames' = [frames EXCEPT ![f] = [@ EXCEPT !.st = "run", !.nres = @ + 1,
                                                     !.nstl = @ + 1]]
    /\ UNCHANGED <<prog, input, nw, deque, result, arr, failCount, mainpc, tsvars>>

\* An idle worker t takes the continuation at the head of v's deque.
Steal(t, v) ==
    /\ t # v
    /\ wcur[t] = NoFrame
    /\ deque[v] # <<>>
    /\ LET f == Head(deque[v]) IN
       /\ wcur' = [wcur EXCEPT ![t] = f]
       /\ frames' = [frames EXCEPT ![f] = [@ EXCEPT !.st = "run", !.nres = @ + 1,
                                                     !.nstl = @ + 1]]
    /\ deque' = [deque EXCEPT ![v] = Tail(@)]
    /\ UNCHANGED <<prog, input, nw, result, arr, failCount, mainpc, tsvars>>

\* Worker w is at program counter pc of a frame of program pr.
At(w, pr, pc) ==
    /\ prog = pr
    /\ wcur[w] # NoFrame
    /\ frames[wcur[w]].pc = pc

\* --------------------------------------------------------------------- fib
FibFrame(kind, n) == Ctl(kind) @@ [n |-> n, x |-> Undef, y |-> Undef]

\* fib with the base case  return 1;
FibBaseOne(n) == 1

FibBaseValue(n) == n
FibSum(x, y) == x + y

\* if (n < 2) return n;
FibBase(w) ==
    /\ At(w, "fib", "entry")
    /\ frames[wcur[w]].n < 2
    /\ Return(w, wcur[w], FibBaseValue(frames[wcur[w]].n))

\* long x = cilk_spawn fib(n-1);
FibSpawn(w) ==
    /\ At(w, "fib", "entry")
    /\ frames[wcur[w]].n >= 2
    /\ Spawn(w, wcur[w], Child(wcur[w], 1),
             FibFrame("spawn", frames[wcur[w]].n - 1),
             [frames[wcur[w]] EXCEPT !.pc = "call"])

\* long y = fib(n-2);
FibCall(w) ==
    /\ At(w, "fib", "call")
    /\ Call(w, wcur[w], Child(wcur[w], 2),
            FibFrame("call", frames[wcur[w]].n - 2),
            [frames[wcur[w]] EXCEPT !.pc = "sync"])

\* fib without its cilk_sync: the frame goes on to  return x + y  at once.
FibSyncNoWait(w) ==
    /\ At(w, "fib", "sync")
    /\ Goto(w, wcur[w], [frames[wcur[w]] EXCEPT !.pc = "ret"])

\* cilk_sync;
FibSync(w) ==
    /\ At(w, "fib", "sync")
    /\ Sync(w, wcur[w], "ret")

\* return x + y;
FibRet(w) ==
    /\ At(w, "fib", "ret")
    /\ \E x \in ReadSlot(frames[wcur[w]].x), y \in ReadSlot(frames[wcur[w]].y) :
          Return(w, wcur[w], FibSum(x, y))

InitFib ==
    /\ prog = "fib"
    /\ input \in 0..MaxFibN
    /\ frames = (Root :> FibFrame("root", input))
    /\ arr = <<>>

\* --------------------------------------------------------------- quicksort
IsQsort == prog \in {"qsort", "qsort_wsp"}

QsFrame(kind, begin, end) ==
    Ctl(kind) @@ [begin |-> begin, end |-> end, lo |-> 0, hi |-> 0, pivot |-> 0,
                  middle |-> 0]

\* a[i] of the C array.
Elem(a, i) == a[i + 1]

\* swap without the temporary: *a = *b; *b = *a;
swapLossy(a, i, k) ==
    [a EXCEPT ![i + 1] = Elem(a, k)]

\* swap(a + i, a + k)
swap(a, i, k) ==
    [a EXCEPT ![i + 1] = Elem(a, k), ![k + 1] = Elem(a, i)]

AtQs(w, pc) ==
    /\ IsQsort
    /\ wcur[w] # NoFrame
    /\ frames[wcur[w]].pc = pc

\* if (begin < end) is false: nothing to sort.
QsEmpty(w) ==
    /\ AtQs(w, "entry")
    /\ ~(frames[wcur[w]].begin < frames[wcur[w]].end)
    /\ Return(w, wcur[w], 0)

\* int last = *(end - 1); then partition(begin, end - 1, last) is entered.
QsLast(w) ==
    LET f == wcur[w] IN
    /\ AtQs(w, "entry")
    /\ frames[f].begin < frames[f].end
    /\ Goto(w, f, [frames[f] EXCEPT !.pc = "part",
                                    !.pivot = Elem(arr, frames[f].end - 1),
                                    !.lo = frames[f].begin,
                                    !.hi = frames[f].end - 1])

\* The body of partition's loop forgetting to move end: swap(begin, end - 1)
\* without end--.
PartitionIterStuck(w, f) ==
    IF Elem(arr, frames[f].lo) < frames[f].pivot
    THEN Goto(w, f, [frames[f] EXCEPT !.lo = @ + 1])
    ELSE Write(w, f, [frames[f] EXCEPT !.lo = @ + 1],
               swap(arr, frames[f].lo, frames[f].hi - 1))

\* The body of partition's loop, lo and hi being its begin and end:
\* if (*begin < pivot) begin++; else { end--; swap(begin, end); }
PartitionIter(w, f) ==
    IF Elem(arr, frames[f].lo) < frames[f].pivot
    THEN Goto(w, f, [frames[f] EXCEPT !.lo = @ + 1])
    ELSE Write(w, f, [frames[f] EXCEPT !.hi = @ - 1],
               swap(arr, frames[f].lo, frames[f].hi - 1))

\* One iteration of partition's loop: while (begin < end) ...
PartitionStep(w) ==
    /\ AtQs(w, "part")
    /\ frames[wcur[w]].lo < frames[wcur[w]].hi
    /\ PartitionIter(w, wcur[w])

\* partition returns end; swap((end - 1), middle) moves the pivot to middle.
QsPivot(w) ==
    LET f == wcur[w] IN
    /\ AtQs(w, "part")
    /\ ~(frames[f].lo < frames[f].hi)
    /\ Write(w, f, [frames[f] EXCEPT !.pc = "spawn", !.middle = frames[f].hi],
             swap(arr, frames[f].end - 1, frames[f].hi))

\* partition(begin, end, pivot) called on its own, on a range of an array and
\* with any pivot value: an iteration of its loop.
PtStep ==
    /\ prog = "partition"
    /\ frames[Root].pc = "part"
    /\ frames[Root].lo < frames[Root].hi
    /\ PartitionIter(1, Root)

\* partition called on its own: return end;
PtReturn ==
    /\ prog = "partition"
    /\ frames[Root].pc = "part"
    /\ ~(frames[Root].lo < frames[Root].hi)
    /\ Return(1, Root, frames[Root].hi)

InitPartition ==
    /\ prog = "partition"
    /\ \E n \in 1..MaxLen : input \in [1..n -> 0..MaxVal]
    /\ arr = input
    /\ \E b \in 0..Len(input), e \in 0..Len(input), p \in 0..MaxVal :
          /\ b <= e
          /\ frames = (Root :> [QsFrame("root", b, e) EXCEPT
                                  !.pc = "part", !.lo = b, !.hi = e, !.pivot = p])

\* The spawn keeping the pivot in the range: cilk_spawn sample_qsort(middle, end);
QsSpawnFromMiddle(w) ==
    LET f == wcur[w] IN
    /\ AtQs(w, "spawn")
    /\ Spawn(w, f, Child(f, 1),
             QsFrame("spawn", frames[f].middle, frames[f].end),
             [frames[f] EXCEPT !.pc = "call"])

\* cilk_spawn sample_qsort(middle+1, end);
QsSpawn(w) ==
    LET f == wcur[w] IN
    /\ AtQs(w, "spawn")
    /\ Spawn(w, f, Child(f, 1),
             QsFrame("spawn", frames[f].middle + 1, frames[f].end),
             [frames[f] EXCEPT !.pc = "call"])

\* sample_qsort(begin, middle);
QsCall(w) ==
    LET f == wcur[w] IN
    /\ AtQs(w, "call")
    /\ Call(w, f, Child(f, 2),
            QsFrame("call", frames[f].begin, frames[f].middle),
            [frames[f] EXCEPT !.pc = "sync"])

\* sample_qsort without its cilk_sync.
QsSyncNoWait(w) ==
    /\ At(w, "qsort", "sync")
    /\ Goto(w, wcur[w], [frames[wcur[w]] EXCEPT !.pc = "ret"])

\* cilk_sync; of the plain quicksort.
QsSync(w) ==
    /\ At(w, "qsort", "sync")
    /\ Sync(w, wcur[w], "ret")

\* A cilk_scope whose closing brace does not sync.
QsScopeEndNoWait(w) ==
    /\ At(w, "qsort_wsp", "sync")
    /\ Goto(w, wcur[w], [frames[wcur[w]] EXCEPT !.pc = "ret"])

\* The closing brace of cilk_scope { ... } of qsort_wsp.c: the implicit sync.
QsScopeEnd(w) ==
    /\ At(w, "qsort_wsp", "sync")
    /\ Sync(w, wcur[w], "ret")

\* End of sample_qsort.
QsRet(w) ==
    /\ AtQs(w, "ret")
    /\ Return(w, wcur[w], 0)

\* The array elements (indices) that the next step of worker w reads:
\* *(end - 1) at the entry, *begin in partition's loop, and the two elements
\* of each swap.
QsReads(w) ==
    IF IsQsort /\ wcur[w] # NoFrame
    THEN LET r == frames[wcur[w]] IN
         IF r.pc = "entry" /\ r.begin < r.end THEN {r.end - 1}
         ELSE IF r.pc = "part" /\ r.lo < r.hi
              THEN IF Elem(arr, r.lo) < r.pivot THEN {r.lo} ELSE {r.lo, r.hi - 1}
         ELSE IF r.pc = "part" THEN {r.end - 1, r.hi}
         ELSE {}
    ELSE {}

\* The array elements that the next step of worker w writes: the two elements
\* of a swap.
QsWrites(w) ==
    IF IsQsort /\ wcur[w] # NoFrame
    THEN LET r == frames[wcur[w]] IN
         IF r.pc = "part" /\ r.lo < r.hi
         THEN IF Elem(arr, r.lo) < r.pivot THEN {} ELSE {r.lo, r.hi - 1}
         ELSE IF r.pc = "part" THEN {r.end - 1, r.hi}
         ELSE {}
    ELSE {}

\* main's loop over i = 1 .. n-1: failFlag = 1 when a[i] < a[i-1]; then
\* if (failFlag == 1) ++failCount.
FailFlag(a) ==
    IF \E i \in 1..(Len(a) - 1) : Elem(a, i) < Elem(a, i - 1) THEN 1 ELSE 0

QsCheck ==
    /\ IsQsort
    /\ mainpc = "check"
    /\ failCount' = IF FailFlag(arr) = 1 THEN failCount + 1 ELSE failCount
    /\ mainpc' = "exit"
    /\ UNCHANGED <<prog, input, nw, frames, wcur, deque, result, arr, tsvars>>

InitQsort ==
    /\ prog \in {"qsort", "qsort_wsp"}
    /\ \E n \in 1..MaxLen : input \in [1..n -> 0..MaxVal]
    /\ arr = input
    /\ frames = (Root :> QsFrame("root", 0, Len(input)))

\* ------------------------------------------------------------------ queens
\* ok(n, a): 1 if none of the n queens conflict, 0 otherwise.
ok(n, a) ==
    IF \E i \in 0..(n - 1) : \E j \in (i + 1)..(n - 1) :
          \/ Elem(a, j) = Elem(a, i)
          \/ Elem(a, j) = Elem(a, i) - (j - i)
          \/ Elem(a, j) = Elem(a, i) + (j - i)
    THEN 0 ELSE 1

NqFrame(kind, j) ==
    Ctl(kind) @@ [j |-> j, i |-> 0, b |-> <<>>, count |-> <<>>]

\* if (n == j) return 1;
NqLeaf(w) ==
    /\ At(w, "nqueens", "entry")
    /\ frames[wcur[w]].j = input
    /\ Return(w, wcur[w], 1)

\* count = alloca; memset(count, 0); b = alloca; memcpy(b, a, j): a is the b of
\* the caller, read now; b[j] is not yet written.
NqCopy(w) ==
    LET f == wcur[w]
        j == frames[f].j
        a == IF f = Root THEN <<>> ELSE frames[Parent(f)].b
    IN
    /\ At(w, "nqueens", "entry")
    /\ j # input
    /\ Goto(w, f, [frames[f] EXCEPT
                     !.pc = "loop",
                     !.count = [k \in 1..input |-> 0],
                     !.b = [k \in 1..(j + 1) |-> IF k <= j THEN a[k] ELSE Undef]])

\* b as the loop body leaves it after  b[j] = i;
Placed(rec) == [rec.b EXCEPT ![rec.j + 1] = rec.i]

\* for (...; i < n; i++) { b[j] = i; if (ok(j + 1, b)) is false
NqSkip(w) ==
    LET f == wcur[w] IN
    /\ At(w, "nqueens", "loop")
    /\ frames[f].i < input
    /\ ok(frames[f].j + 1, Placed(frames[f])) = 0
    /\ Goto(w, f, [frames[f] EXCEPT !.b = Placed(frames[f]), !.i = @ + 1])

\* for (...; i < n; i++) { b[j] = i;
\*   if (ok(j + 1, b)) count[i] = cilk_spawn nqueens(n, j + 1, b);
\* the continuation starts with i++.
NqSpawn(w) ==
    LET f == wcur[w] IN
    /\ At(w, "nqueens", "loop")
    /\ frames[f].i < input
    /\ ok(frames[f].j + 1, Placed(frames[f])) = 1
    /\ Spawn(w, f, Child(f, frames[f].i + 1),
             NqFrame("spawn", frames[f].j + 1),
             [frames[f] EXCEPT !.b = Placed(frames[f]), !.i = @ + 1])

\* The loop ends (i == n); cilk_sync;
NqSync(w) ==
    /\ At(w, "nqueens", "loop")
    /\ ~(frames[wcur[w]].i < input)
    /\ Sync(w, wcur[w], "sum")

RECURSIVE SumSeq(_)
SumSeq(s) == IF s = <<>> THEN 0 ELSE Head(s) + SumSeq(Tail(s))

\* for (i...) solNum += count[i]; return solNum;
NqSum(w) ==
    /\ At(w, "nqueens", "sum")
    /\ Return(w, wcur[w], SumSeq(frames[wcur[w]].count))

InitNq(maxn) ==
    /\ prog = "nqueens"
    /\ input \in 1..maxn
    /\ frames = (Root :> NqFrame("root", 0))
    /\ arr = <<>>

\* The golden values listed above nqueens.
Golden(n) ==
    CASE n = 4 -> 2 [] n = 5 -> 10 [] n = 6 -> 4 [] n = 7 -> 40
      [] n = 8 -> 92 [] n = 9 -> 352 [] n = 10 -> 724 [] n = 11 -> 2680
      [] n = 12 -> 14200 [] n = 13 -> 73712 [] n = 14 -> 365596
      [] n = 15 -> 2279184

\* The memory locations <<frame, array, index>> that the next step of worker w
\* reads: memcpy reads a[0 .. j-1], the b of the caller; the loop body's ok()
\* reads b[0 .. j]; the summing loop reads count[0 .. n-1].
NqReads(w) ==
    LET f == wcur[w] IN
    IF prog # "nqueens" \/ f = NoFrame THEN {}
    ELSE IF frames[f].pc = "entry" /\ frames[f].j # input /\ f # Root
    THEN {<<Parent(f), "b", k>> : k \in 0..(frames[f].j - 1)}
    ELSE IF frames[f].pc = "loop" /\ frames[f].i < input
    THEN {<<f, "b", k>> : k \in 0..frames[f].j}
    ELSE IF frames[f].pc = "sum"
    THEN {<<f, "count", k>> : k \in 0..(input - 1)}
    ELSE {}

\* ... and those it writes: memset and memcpy write the frame's own count and
\* b[0 .. j-1]; the loop body writes b[j]; the return of a spawned call writes
\* count[i] of its parent.
NqWrites(w) ==
    LET f == wcur[w] IN
    IF prog # "nqueens" \/ f = NoFrame THEN {}
    ELSE IF frames[f].pc = "entry" /\ frames[f].j # input
    THEN {<<f, "b", k>> : k \in 0..(frames[f].j - 1)}
         \cup {<<f, "count", k>> : k \in 0..(input - 1)}
    ELSE IF frames[f].pc = "loop" /\ frames[f].i < input
    THEN {<<f, "b", frames[f].j>>}
    ELSE IF frames[f].pc \in {"entry", "sum"} /\ frames[f].kind = "spawn"
    THEN {<<Parent(f), "count", Idx(f) - 1>>}
    ELSE {}

\* ---------------------------------------------------------------- timespec
NSEC_PER_SEC == 1000 * 1000 * 1000

Timespec(s, ns) == [tv_sec |-> s, tv_nsec |-> ns]

Zero == Timespec(0, 0)

\* timespec_sub without the two adjustments: the raw differences.
timespec_sub_raw(te, ts) ==
    Timespec(te.tv_sec - ts.tv_sec, te.tv_nsec - ts.tv_nsec)

\* timespec_sub borrowing also when the seconds difference is zero.
timespec_sub_ge(te, ts) ==
    LET ns == te.tv_nsec - ts.tv_nsec
        s == te.tv_sec - ts.tv_sec
    IN IF s >= 0 /\ ns < 0 THEN Timespec(s - 1, ns + NSEC_PER_SEC)
       ELSE IF s < 0 /\ ns > 0 THEN Timespec(s + 1, ns - NSEC_PER_SEC)
       ELSE Timespec(s, ns)

timespec_sub(te, ts) ==
    LET ns == te.tv_nsec - ts.tv_nsec
        s == te.tv_sec - ts.tv_sec
    IN IF s > 0 /\ ns < 0 THEN Timespec(s - 1, ns + NSEC_PER_SEC)
       ELSE IF s < 0 /\ ns > 0 THEN Timespec(s + 1, ns - NSEC_PER_SEC)
       ELSE Timespec(s, ns)

\* timespec_add without the carry.
timespec_add_nocarry(t1, t2) ==
    Timespec(t1.tv_sec + t2.tv_sec, t1.tv_nsec + t2.tv_nsec)

timespec_add(t1, t2) ==
    LET ns == t1.tv_nsec + t2.tv_nsec
        s == t1.tv_sec + t2.tv_sec
    IN IF ns >= NSEC_PER_SEC THEN Timespec(s + 1, ns - NSEC_PER_SEC)
       ELSE Timespec(s, ns)

\* Valid time stamps (0 <= tv_nsec < NSEC_PER_SEC) the arithmetic is tried on:
\* nanoseconds at both ends of the range and in its middle.
NsecSamples ==
    {NSEC_PER_SEC \div 2}
    \cup UNION {{k, NSEC_PER_SEC - 1 - k} : k \in 0..MaxNsecStep}
Timestamps == {Timespec(s, ns) : s \in 0..MaxSec, ns \in NsecSamples}

\* timespec_sub(&d, t_end, t_start)
TsSub ==
    /\ tpc = "sub"
    /\ t_diff' = timespec_sub(t_end, t_start)
    /\ tpc' = "add"
    /\ UNCHANGED <<fjvars, t_end, t_start, t_sum, conv, swvars>>

\* timespec_add(&r, d, t_start)
TsAdd ==
    /\ tpc = "add"
    /\ t_sum' = timespec_add(t_diff, t_start)
    /\ tpc' = "done"
    /\ UNCHANGED <<fjvars, t_end, t_start, t_diff, conv, swvars>>


\* --------------------------------------------------------------- stopwatch
\* ctimer_t
Ctimer(s, e, el) == [start |-> s, end |-> e, elapsed |-> el]

\* ctimer_measure adding to elapsed as ctimer_lap does.
ctimer_measure_adds(t) ==
    [t EXCEPT !.elapsed = timespec_sub(timespec_add(t.elapsed, t.end), t.start)]

\* ctimer_measure(&t)
ctimer_measure(t) == [t EXCEPT !.elapsed = timespec_sub(t.end, t.start)]

\* ctimer_lap storing the interval as ctimer_measure does.
ctimer_lap_stores(t) == [t EXCEPT !.elapsed = timespec_sub(t.end, t.start)]

\* ctimer_lap(&t): elapsed += end - start
ctimer_lap(t) ==
    [t EXCEPT !.elapsed = timespec_sub(timespec_add(t.elapsed, t.end), t.start)]

\* ctimer_reset zeroing the whole stopwatch: *t = (ctimer_t){0}.
ctimer_reset_all(t) == Ctimer(Zero, Zero, Zero)

\* ctimer_reset(&t)
ctimer_reset(t) == [t EXCEPT !.elapsed = Zero]

\* ctimer_start(&t) when clock_gettime gives r.
ctimer_start(t, r) == [t EXCEPT !.start = r]

\* ctimer_stop measuring in every build.
ctimer_stop_always(t, r, macro) == ctimer_measure([t EXCEPT !.end = r])

\* ctimer_stop(&t) when clock_gettime gives r; measures too when the build
\* defines CTIMER_MEASURE_ON_STOP.
ctimer_stop(t, r, macro) ==
    IF macro THEN ctimer_measure([t EXCEPT !.end = r]) ELSE [t EXCEPT !.end = r]

\* What clock_gettime(CLOCK_MONOTONIC, ...) can write: valid time stamps with the
\* nanoseconds at both ends of the range and in its middle.
Readings ==
    {Timespec(s, ns) : s \in 0..MaxClockSec,
                       ns \in {0, NSEC_PER_SEC \div 2, NSEC_PER_SEC - 1}}

\* a is not later than b.
NotAfter(a, b) ==
    \/ a.tv_sec < b.tv_sec
    \/ a.tv_sec = b.tv_sec /\ a.tv_nsec <= b.tv_nsec

\* The clock is monotonic: a reading is not earlier than the one before.
NextReadings == {r \in Readings : NotAfter(clock, r)}

\* The time stamp with the same nanosecond count as t and 0 <= tv_nsec < 1e9.
Canon(t) ==
    Timespec(t.tv_sec + (t.tv_nsec \div NSEC_PER_SEC), t.tv_nsec % NSEC_PER_SEC)

\* The exact sum a + (e - s) as a nanosecond count, for a = Canon(a).
PlusInterval(a, e, s) ==
    Canon(Timespec(a.tv_sec + e.tv_sec - s.tv_sec, a.tv_nsec + e.tv_nsec - s.tv_nsec))

\* History of the calls since the last ctimer_reset: st is "idle" after the
\* reset or a complete round, "started" and "stopped" inside a round of
\* (ctimer_start, ctimer_stop, ctimer_lap), and "off" when the calls were not
\* such rounds; k counts the complete rounds and sum is the exact sum of their
\* intervals end - start.
Off == [st |-> "off", k |-> 0, sum |-> Zero]

\* History of the calls on the stopwatch: pair is "started" when the last
\* reading of the clock was taken by ctimer_start, "stopped" when it was taken
\* by ctimer_stop after a ctimer_start, and "none" before the first
\* ctimer_start; set is TRUE when elapsed was last overwritten by ctimer_reset
\* or by a ctimer_measure that followed such a pair, and every ctimer_lap since
\* followed such a pair too.
NoHist == [pair |-> "none", set |-> FALSE]

HistReset(h) == [h EXCEPT !.set = TRUE]

HistStart(h) == [h EXCEPT !.pair = "started"]

HistMeasure(h) == [h EXCEPT !.set = (h.pair = "stopped")]

HistLap(h) == [h EXCEPT !.set = (h.set /\ h.pair = "stopped")]

\* ctimer_stop calls ctimer_measure when the build defines the macro.
HistStop(h, macro) ==
    LET g == [h EXCEPT !.pair = IF h.pair = "none" THEN "none" ELSE "stopped"]
    IN IF macro THEN HistMeasure(g) ELSE g

WatchRuns == prog = "watch" /\ dpc = "none"

WatchReset ==
    /\ WatchRuns
    /\ timer' = ctimer_reset(timer)
    /\ op' = "reset"
    /\ nlap' = 0
    /\ acc' = [st |-> "idle", k |-> 0, sum |-> Zero]
    /\ hist' = HistReset(hist)
    /\ UNCHANGED <<fjvars, t_end, t_start, t_diff, t_sum, tpc, conv, clock, on_stop, dpc, report>>

WatchStart ==
    /\ WatchRuns
    /\ \E r \in NextReadings :
          /\ clock' = r
          /\ timer' = ctimer_start(timer, r)
    /\ op' = "start"
    /\ acc' = IF acc.st = "idle" THEN [acc EXCEPT !.st = "started"] ELSE Off
    /\ hist' = HistStart(hist)
    /\ UNCHANGED <<fjvars, t_end, t_start, t_diff, t_sum, tpc, conv, on_stop, nlap, dpc, report>>

WatchStop ==
    /\ WatchRuns
    /\ \E r \in NextReadings :
          /\ clock' = r
          /\ timer' = ctimer_stop(timer, r, on_stop)
    /\ op' = "stop"
    /\ nlap' = IF on_stop THEN 0 ELSE nlap
    /\ acc' = IF acc.st = "started" THEN [acc EXCEPT !.st = "stopped"] ELSE Off
    /\ hist' = HistStop(hist, on_stop)
    /\ UNCHANGED <<fjvars, t_end, t_start, t_diff, t_sum, tpc, conv, on_stop, dpc, report>>

WatchMeasure ==
    /\ WatchRuns
    /\ timer' = ctimer_measure(timer)
    /\ op' = "measure"
    /\ nlap' = 0
    /\ acc' = Off
    /\ hist' = HistMeasure(hist)
    /\ UNCHANGED <<fjvars, t_end, t_start, t_diff, t_sum, tpc, conv, clock, on_stop, dpc, report>>

\* ctimer_lap, at most MaxLaps times in a row and in at most MaxLaps rounds,
\* on an elapsed time that is within a second of its tv_sec (so that the sums
\* stay small).
WatchLap ==
    /\ WatchRuns
    /\ nlap < MaxLaps
    /\ acc.k < MaxLaps
    /\ timer.elapsed.tv_nsec > -NSEC_PER_SEC
    /\ timer.elapsed.tv_nsec < NSEC_PER_SEC
    /\ timer' = ctimer_lap(timer)
    /\ op' = "lap"
    /\ nlap' = nlap + 1
    /\ acc' = IF acc.st = "stopped"
              THEN [st |-> "idle", k |-> acc.k + 1,
                    sum |-> PlusInterval(acc.sum, timer.end, timer.start)]
              ELSE Off
    /\ hist' = HistLap(hist)
    /\ UNCHANGED <<fjvars, t_end, t_start, t_diff, t_sum, tpc, conv, clock, on_stop, dpc, report>>

\* The fields of a ctimer_t that was declared and not initialised hold
\* anything; the clock has not been read.
NewWatch ==
    /\ timer \in {Ctimer(s, e, el) : s \in Readings, e \in Readings, el \in Readings}
    /\ clock = Zero
    /\ on_stop \in BOOLEAN
    /\ op = "none"
    /\ nlap = 0
    /\ acc = Off
    /\ hist = NoHist
    /\ report = <<>>

\* No stopwatch in use.
NoWatch ==
    /\ timer = Ctimer(Zero, Zero, Zero)
    /\ clock = Zero
    /\ on_stop = FALSE
    /\ op = "none"
    /\ nlap = 0
    /\ acc = Off
    /\ hist = NoHist
    /\ dpc = "none"
    /\ report = <<>>

\* ------------------------------------------------------------- conversions
MSEC_PER_SEC == 1000
USEC_PER_SEC == 1000 * 1000

\* a / b of C for b > 0: the quotient is truncated toward zero.
CDiv(a, b) == IF a >= 0 THEN a \div b ELSE -((-a) \div b)

\* timespec_msec rounding to the nearest millisecond.
timespec_msec_round(t) ==
    t.tv_sec * MSEC_PER_SEC + CDiv(t.tv_nsec + USEC_PER_SEC \div 2, USEC_PER_SEC)

timespec_msec(t) == t.tv_sec * MSEC_PER_SEC + CDiv(t.tv_nsec, USEC_PER_SEC)

timespec_usec(t) == t.tv_sec * USEC_PER_SEC + CDiv(t.tv_nsec, MSEC_PER_SEC)

timespec_nsec(t) == t.tv_sec * NSEC_PER_SEC + t.tv_nsec

\* The time stamps the conversions are tried on: nanoseconds on both sides of
\* the multiples and of the half multiples of a microsecond and of a
\* millisecond, and seconds 0 and 1 (the nanosecond count of two seconds and
\* more does not fit the 32-bit integers of the model checker).
ConvNsec ==
    {0, 1, 499, 500, 999, 1000, 1499, 1500, 499999, 500000, 999999, 1000000,
     1499999, 1500000, 1999999, 499999999, 500000000, 999000000, 999499999,
     999500000, 999999499, 999999500, 999999999}
ConvStamps == {Timespec(s, ns) : s \in 0..1, ns \in ConvNsec}

Conv(t, pc) == [t |-> t, pc |-> pc, msec |-> 0, usec |-> 0, nsec |-> 0]

\* No conversion in use.
NoConv == conv = Conv(Zero, "done")

\* long ms = timespec_msec(t);
ConvMsec ==
    /\ conv.pc = "msec"
    /\ conv' = [conv EXCEPT !.msec = timespec_msec(conv.t), !.pc = "usec"]
    /\ UNCHANGED <<fjvars, t_end, t_start, t_diff, t_sum, tpc, swvars>>

\* long us = timespec_usec(t);
ConvUsec ==
    /\ conv.pc = "usec"
    /\ conv' = [conv EXCEPT !.usec = timespec_usec(conv.t), !.pc = "nsec"]
    /\ UNCHANGED <<fjvars, t_end, t_start, t_diff, t_sum, tpc, swvars>>

\* long ns = timespec_nsec(t);
ConvNsecStep ==
    /\ conv.pc = "nsec"
    /\ conv' = [conv EXCEPT !.nsec = timespec_nsec(conv.t), !.pc = "done"]
    /\ UNCHANGED <<fjvars, t_end, t_start, t_diff, t_sum, tpc, swvars>>

\* ------------------------------------------------------------ fib's drivers
\* main of fib.c around its stopwatch, in its two variants: without the macro
\* (stop, then measure) and with #define CTIMER_MEASURE_ON_STOP (stop only).
\* ctimer_print takes the stopwatch by value (ctimer_t const t).  The first
\* variant calls ctimer_print(t, "fib"); the second calls ctimer_print(&t,
\* "fib"), a ctimer_t * where a ctimer_t is required, which a C compiler
\* rejects: that variant is never built and never runs.
DrvBuild ==
    /\ prog = "driver"
    /\ dpc = "build"
    /\ dpc' = IF on_stop THEN "rejected" ELSE "start"
    /\ UNCHANGED <<fjvars, t_end, t_start, t_diff, t_sum, tpc, conv, timer, hist, clock, on_stop,
                   op, nlap, acc, report>>

\* ctimer_t t; ctimer_start(&t);
DrvStart ==
    /\ prog = "driver"
    /\ dpc = "start"
    /\ \E r \in NextReadings :
          /\ clock' = r
          /\ timer' = ctimer_start(timer, r)
    /\ op' = "start"
    /\ dpc' = "fib"
    /\ hist' = HistStart(hist)
    /\ UNCHANGED <<fjvars, t_end, t_start, t_diff, t_sum, tpc, conv, on_stop, nlap, acc, report>>

\* long result = fib(n); ctimer_stop(&t);
DrvStop ==
    /\ prog = "driver"
    /\ dpc = "fib"
    /\ \E r \in NextReadings :
          /\ clock' = r
          /\ timer' = ctimer_stop(timer, r, on_stop)
    /\ op' = "stop"
    /\ dpc' = IF on_stop THEN "print" ELSE "measure"
    /\ hist' = HistStop(hist, on_stop)
    /\ UNCHANGED <<fjvars, t_end, t_start, t_diff, t_sum, tpc, conv, on_stop, nlap, acc, report>>

\* ctimer_measure(&t);
DrvMeasure ==
    /\ prog = "driver"
    /\ dpc = "measure"
    /\ timer' = ctimer_measure(timer)
    /\ op' = "measure"
    /\ dpc' = "print"
    /\ hist' = HistMeasure(hist)
    /\ UNCHANGED <<fjvars, t_end, t_start, t_diff, t_sum, tpc, conv, clock, on_stop, nlap, acc,
                   report>>

\* ctimer_print(t, "fib"): printf("%ld.%09ld sec\n", elapsed.tv_sec, elapsed.tv_nsec)
DrvPrint ==
    /\ prog = "driver"
    /\ dpc = "print"
    /\ report' = <<timer.elapsed>>
    /\ dpc' = "done"
    /\ UNCHANGED <<fjvars, t_end, t_start, t_diff, t_sum, tpc, conv, timer, hist, clock, on_stop, op,
                   nlap, acc>>

\* ------------------------------------------------------------ specification
InitPool(sizes) ==
    /\ nw \in sizes
    /\ wcur = [w \in 1..nw |-> IF w = 1 THEN Root ELSE NoFrame]
    /\ deque = [w \in 1..nw |-> <<>>]
    /\ result = <<>>
    /\ failCount = 0
    /\ mainpc = "run"

NoTime ==
    /\ t_end = Timespec(0, 0)
    /\ t_start = Timespec(0, 0)
    /\ t_diff = Timespec(0, 0)
    /\ t_sum = Timespec(0, 0)
    /\ tpc = "done"
    /\ NoConv
    /\ NoWatch

\* The three examples on pools of 1..MaxWorkers workers.
Init == InitPool(1..MaxWorkers) /\ NoTime /\ (InitFib \/ InitQsort \/ InitNq(MaxQueens))

Next ==
    \/ \E w \in Workers : FibBase(w)
    \/ \E w \in Workers : FibSpawn(w)
    \/ \E w \in Workers : FibCall(w)
    \/ \E w \in Workers : FibSync(w)
    \/ \E w \in Workers : FibRet(w)
    \/ \E w \in Workers : QsEmpty(w)
    \/ \E w \in Workers : QsLast(w)
    \/ \E w \in Workers : PartitionStep(w)
    \/ \E w \in Workers : QsPivot(w)
    \/ \E w \in Workers : QsSpawn(w)
    \/ \E w \in Workers : QsCall(w)
    \/ \E w \in Workers : QsSync(w)
    \/ \E w \in Workers : QsScopeEnd(w)
    \/ \E w \in Workers : QsRet(w)
    \/ QsCheck
    \/ \E w \in Workers : NqLeaf(w)
    \/ \E w \in Workers : NqCopy(w)
    \/ \E w \in Workers : NqSkip(w)
    \/ \E w \in Workers : NqSpawn(w)
    \/ \E w \in Workers : NqSync(w)
    \/ \E w \in Workers : NqSum(w)
    \/ \E t \in Workers, v \in Workers : Steal(t, v)

Spec == Init /\ [][Next]_vars

\* The examples whose spawned calls return a value into a slot of the parent
\* (fib into x, nqueens into count[i]).
InitSlots == InitPool(1..MaxWorkers) /\ NoTime /\ (InitFib \/ InitNq(MaxQueens))

NextSlots ==
    \/ \E w \in Workers : FibBase(w)
    \/ \E w \in Workers : FibSpawn(w)
    \/ \E w \in Workers : FibCall(w)
    \/ \E w \in Workers : FibSync(w)
    \/ \E w \in Workers : FibRet(w)
    \/ \E w \in Workers : NqLeaf(w)
    \/ \E w \in Workers : NqCopy(w)
    \/ \E w \in Workers : NqSkip(w)
    \/ \E w \in Workers : NqSpawn(w)
    \/ \E w \in Workers : NqSync(w)
    \/ \E w \in Workers : NqSum(w)
    \/ \E t \in Workers, v \in Workers : Steal(t, v)

SpecSlots == InitSlots /\ [][NextSlots]_vars

\* The binary-branching examples (fib, quicksort) on pools of 2..MaxPool
\* workers, under fair scheduling: a step that stays possible is taken.
InitStress == InitPool(2..MaxPool) /\ NoTime /\ (InitFib \/ InitQsort)

NextStress ==
    \/ \E w \in Workers : FibBase(w)
    \/ \E w \in Workers : FibSpawn(w)
    \/ \E w \in Workers : FibCall(w)
    \/ \E w \in Workers : FibSync(w)
    \/ \E w \in Workers : FibRet(w)
    \/ \E w \in Workers : QsEmpty(w)
    \/ \E w \in Workers : QsLast(w)
    \/ \E w \in Workers : PartitionStep(w)
    \/ \E w \in Workers : QsPivot(w)
    \/ \E w \in Workers : QsSpawn(w)
    \/ \E w \in Workers : QsCall(w)
    \/ \E w \in Workers : QsSync(w)
    \/ \E w \in Workers : QsScopeEnd(w)
    \/ \E w \in Workers : QsRet(w)
    \/ QsCheck
    \/ \E t \in Workers, v \in Workers : Steal(t, v)

FairSpec == InitStress /\ [][NextStress]_vars /\ WF_vars(NextStress)

\* nqueens alone, on boards of up to MaxBoard rows.
InitQueens == InitPool(1..MaxWorkers) /\ NoTime /\ InitNq(MaxBoard)

NextQueens ==
    \/ \E w \in Workers : NqLeaf(w)
    \/ \E w \in Workers : NqCopy(w)
    \/ \E w \in Workers : NqSkip(w)
    \/ \E w \in Workers : NqSpawn(w)
    \/ \E w \in Workers : NqSync(w)
    \/ \E w \in Workers : NqSum(w)
    \/ \E t \in Workers, v \in Workers : Steal(t, v)

SpecQueens == InitQueens /\ [][NextQueens]_vars

\* The timespec arithmetic on every pair of sampled time stamps.
InitTime ==
    /\ prog = "time"
    /\ input = 0
    /\ nw = 0
    /\ frames = <<>>
    /\ wcur = <<>>
    /\ deque = <<>>
    /\ result = <<>>
    /\ arr = <<>>
    /\ failCount = 0
    /\ mainpc = "exit"
    /\ t_end \in Timestamps
    /\ t_start \in Timestamps
    /\ t_diff = Timespec(0, 0)
    /\ t_sum = Timespec(0, 0)
    /\ tpc = "sub"
    /\ NoConv
    /\ NoWatch

NextTime == TsSub \/ TsAdd

SpecTime == InitTime /\ [][NextTime]_vars

\* The stopwatch under every sequence of calls of its functions.
NoForkJoin ==
    /\ input = 0
    /\ nw = 0
    /\ frames = <<>>
    /\ wcur = <<>>
    /\ deque = <<>>
    /\ result = <<>>
    /\ arr = <<>>
    /\ failCount = 0
    /\ mainpc = "exit"

NoArith ==
    /\ t_end = Zero
    /\ t_start = Zero
    /\ t_diff = Zero
    /\ t_sum = Zero
    /\ tpc = "done"

InitWatch ==
    prog = "watch" /\ NoForkJoin /\ NoArith /\ NoConv /\ NewWatch /\ dpc = "none"

NextWatch ==
    \/ WatchReset
    \/ WatchStart
    \/ WatchStop
    \/ WatchMeasure
    \/ WatchLap

SpecWatch == InitWatch /\ [][NextWatch]_vars

\* The two variants of fib's driver.
InitDriver ==
    prog = "driver" /\ NoForkJoin /\ NoArith /\ NoConv /\ NewWatch /\ dpc = "build"

NextDriver ==
    \/ DrvBuild
    \/ DrvStart
    \/ DrvStop
    \/ DrvMeasure
    \/ DrvPrint

SpecDriver == InitDriver /\ [][NextDriver]_vars

\* The integer conversions on every sampled time stamp.
InitConv ==
    /\ prog = "conv"
    /\ NoForkJoin
    /\ NoArith
    /\ NoWatch
    /\ conv \in {Conv(t, "msec") : t \in ConvStamps}

NextConv == ConvMsec \/ ConvUsec \/ ConvNsecStep

SpecConv == InitConv /\ [][NextConv]_vars

\* partition on every range and pivot, and sample_qsort run by one worker;
\* every step that is possible is eventually taken.
InitSerial == InitPool(1..1) /\ NoTime /\ (InitPartition \/ InitQsort)

NextSerial ==
    \/ PtStep
    \/ PtReturn
    \/ \E w \in Workers : QsEmpty(w)
    \/ \E w \in Workers : QsLast(w)
    \/ \E w \in Workers : PartitionStep(w)
    \/ \E w \in Workers : QsPivot(w)
    \/ \E w \in Workers : QsSpawn(w)
    \/ \E w \in Workers : QsCall(w)
    \/ \E w \in Workers : QsSync(w)
    \/ \E w \in Workers : QsScopeEnd(w)
    \/ \E w \in Workers : QsRet(w)
    \/ QsCheck

SpecSerial == InitSerial /\ [][NextSerial]_vars /\ WF_vars(NextSerial)

\* ------------------------------------------------------------------ claims
SpawnedChildren(f) ==
    {c \in Live : Len(c) > 0 /\ Parent(c) = f /\ frames[c].kind = "spawn"}
Children(f) == {c \in Live : Len(c) > 0 /\ Parent(c) = f}
Finished == result # <<>>
SomeSteal == \E f \in Live : frames[f].nstl > 0

\* C1: a parent reads a child's result slot only after the child has completed
\* and stored it.  A frame that is past its cilk_sync (fib at  return x + y,
\* nqueens at its summing loop, or returned) has no child outstanding, every
\* call it spawned has returned, and the slot of each holds the value that
\* call returned.
C1_ReadAfterJoin ==
    \A f \in Live :
        frames[f].pc \in {"ret", "sum", "done"} =>
            /\ frames[f].pending = 0
            /\ \A c \in SpawnedChildren(f) :
                  /\ frames[c].st = "done"
                  /\ prog = "fib" /\ frames[f].pc = "ret" => frames[f].x = frames[c].rv
                  /\ prog = "nqueens" /\ frames[f].pc = "sum" =>
                        frames[f].count[Idx(c)] = frames[c].rv
            /\ prog = "fib" /\ frames[f].pc = "ret" =>
                  frames[f].x # Undef /\ frames[f].y # Undef

\* A fib frame whose continuation was stolen is about to read x, which its
\* spawned child has stored.
C1_Witness ==
    /\ prog = "fib"
    /\ \E f \in Live : /\ frames[f].pc = "ret"
                       /\ frames[f].nstl > 0
                       /\ frames[f].x # Undef

RECURSIVE FibSeq(_)
FibSeq(n) == IF n < 2 THEN n ELSE FibSeq(n - 1) + FibSeq(n - 2)

\* C2: for every n, every pool size and every schedule, fib(n) returns the
\* value of the sequential definition.
C2_FibCorrect ==
    prog = "fib" /\ Finished => result[1] = FibSeq(input)

\* fib(n), n >= 3, has returned on a pool of several workers after a steal.
C2_Witness ==
    /\ prog = "fib"
    /\ Finished
    /\ input >= 3
    /\ nw >= 2
    /\ SomeSteal

IsSorted(a) == \A i \in 1..(Len(a) - 1) : a[i] <= a[i + 1]
Occurrences(a, v) == Cardinality({i \in 1..Len(a) : a[i] = v})
IsPermutation(a, b) ==
    /\ Len(a) = Len(b)
    /\ \A i \in 1..Len(b) : Occurrences(a, b[i]) = Occurrences(b, b[i])

\* C3: when sample_qsort(a, a + n) has returned, a is a non-decreasing
\* permutation of the input, whatever the schedule and the pool size (so every
\* run gives the same array), and the harness counts no failure.
C3_QsortCorrect ==
    IsQsort /\ mainpc # "run" =>
        /\ IsSorted(arr)
        /\ IsPermutation(arr, input)
        /\ failCount = 0

\* The harness has checked an array of three elements, two of them equal, that
\* was not sorted to begin with and was sorted with a steal.
C3_Witness ==
    /\ IsQsort
    /\ mainpc = "exit"
    /\ Len(input) = 3
    /\ arr # input
    /\ \E i, k \in 1..3 : i # k /\ input[i] = input[k]
    /\ SomeSteal

\* C4: for board sizes 4..9, nqueens(n, 0, a) returns the golden count under
\* every schedule and pool size.
C4_NqGolden ==
    prog = "nqueens" /\ Finished /\ input \in 4..9 => result[1] = Golden(input)

\* Two workers are about to touch the same location, one of them writing it.
NqRace ==
    \E w1 \in Workers, w2 \in Workers :
        /\ w1 # w2
        /\ NqWrites(w1) \cap (NqReads(w2) \cup NqWrites(w2)) # {}

\* C5: nqueens is well-formed with respect to shared memory: each count[i] is
\* written by one spawned call and read by the parent only after its sync, and
\* no location is written by one task while a logically parallel task reads or
\* writes it.
C5_NqWellFormed ==
    prog = "nqueens" =>
        /\ \A f \in Live :
              /\ frames[f].nsp = Cardinality(SpawnedChildren(f))
              /\ frames[f].pc = "sum" => frames[f].pending = 0
        /\ ~NqRace

\* C6: when an invocation returns, every task it spawned has completed, and
\* so has every call it made; when the root call has returned no task is
\* pending or running anywhere: every frame is done, every deque is empty and
\* every worker idle.
C6_JoinBeforeReturn ==
    /\ \A f \in Live :
          frames[f].st = "done" =>
              /\ frames[f].pending = 0
              /\ \A c \in Children(f) : frames[c].st = "done"
    /\ Finished =>
          /\ \A f \in Live : frames[f].st = "done"
          /\ \A w \in Workers : wcur[w] = NoFrame /\ deque[w] = <<>>

\* The root call has returned from a run with at least five invocations and
\* a steal.
C6_Witness ==
    /\ Finished
    /\ Cardinality(Live) >= 5
    /\ SomeSteal

C8_Completes == <>(mainpc = "exit")

\* A run on at least three workers has completed with two continuations
\* stolen.
C8_Witness ==
    /\ mainpc = "exit"
    /\ nw >= 3
    /\ Cardinality({f \in Live : frames[f].nstl > 0}) >= 2

\* C9: timespec_sub followed by timespec_add of t_start gives back t_end
\* exactly, for valid time stamps in either order.
C9_RoundTrip ==
    tpc = "done" => t_sum = t_end

SecDiff == t_end.tv_sec - t_start.tv_sec
NsecDiff == t_end.tv_nsec - t_start.tv_nsec
AddCarries ==
    LET ns == t_diff.tv_nsec + t_start.tv_nsec
        sec == t_diff.tv_sec + t_start.tv_sec
    IN tpc = "done" =>
          t_sum = IF ns >= NSEC_PER_SEC THEN Timespec(sec + 1, ns - NSEC_PER_SEC)
                  ELSE Timespec(sec, ns)

\* C10 as stated: whenever the nanoseconds difference is negative, timespec_sub
\* gives (seconds difference - 1, nanoseconds difference + 1,000,000,000), also
\* when the seconds difference is zero or negative; timespec_add carries
\* whenever the summed nanoseconds reach 1,000,000,000.
C10_BorrowAlways ==
    /\ tpc # "sub" /\ NsecDiff < 0 =>
          t_diff = Timespec(SecDiff - 1, NsecDiff + NSEC_PER_SEC)
    /\ AddCarries

\* C10 as amended: timespec_sub borrows only when the seconds difference is
\* positive: with a negative nanoseconds difference it gives (seconds
\* difference - 1, nanoseconds difference + 1,000,000,000) when the seconds
\* difference is positive, and the two raw differences when it is zero or
\* negative; timespec_add carries whenever the summed nanoseconds reach
\* 1,000,000,000.
C10_BorrowWhenPositive ==
    /\ tpc # "sub" /\ NsecDiff < 0 =>
          t_diff = IF SecDiff > 0
                   THEN Timespec(SecDiff - 1, NsecDiff + NSEC_PER_SEC)
                   ELSE Timespec(SecDiff, NsecDiff)
    /\ AddCarries

\* A subtraction that borrowed, followed by an addition that carried.
C10_Witness ==
    /\ tpc = "done"
    /\ SecDiff > 0
    /\ NsecDiff < 0
    /\ t_diff.tv_nsec + t_start.tv_nsec >= NSEC_PER_SEC

\* The interval end - start of the stopwatch, as a nanosecond count.
Interval == Canon(Timespec(timer.end.tv_sec - timer.start.tv_sec,
                           timer.end.tv_nsec - timer.start.tv_nsec))

\* After ctimer_reset and k rounds of (ctimer_start, ctimer_stop, ctimer_lap),
\* elapsed is the sum of the k intervals as a nanosecond count, and after one
\* round it is what ctimer_measure gives.
LapsAccumulate ==
    acc.st = "idle" =>
        /\ Canon(timer.elapsed) = acc.sum
        /\ acc.k = 1 => timer.elapsed = ctimer_measure(timer).elapsed

\* C11 as stated: after ctimer_reset, k rounds of (ctimer_start, ctimer_stop,
\* ctimer_lap) with monotonic clock readings leave elapsed equal, as a
\* nanosecond count, to the sum of the k intervals end - start, and a single
\* lap after reset gives the same elapsed as ctimer_measure, in every build.
C11_LapsAccumulate == LapsAccumulate

\* C11 as amended: in a build that does not define CTIMER_MEASURE_ON_STOP,
\* after ctimer_reset, k rounds of (ctimer_start, ctimer_stop, ctimer_lap) with
\* monotonic clock readings leave elapsed equal, as a nanosecond count, to the
\* sum of the k intervals end - start, and a single lap after reset gives the
\* same elapsed as ctimer_measure.
C11_LapsAccumulateNoMacro == ~on_stop => LapsAccumulate

\* Three rounds have been accumulated without the macro; the last one
\* borrowed (its end has the smaller nanoseconds) and the sum is over a second.
C11_Witness ==
    /\ ~on_stop
    /\ acc.st = "idle"
    /\ acc.k = 3
    /\ acc.sum.tv_sec >= 1
    /\ acc.sum.tv_nsec > 0
    /\ timer.end.tv_nsec < timer.start.tv_nsec

\* C12: ctimer_measure overwrites elapsed with end - start whatever elapsed
\* was, leaves start and end unchanged, and changes nothing when it is called
\* again; ctimer_lap called again adds the interval again.
C12_MeasureOverwrites ==
    [][/\ op' = "measure" =>
            /\ timer'.start = timer.start
            /\ timer'.end = timer.end
            /\ Canon(timer'.elapsed) = Interval
            /\ op = "measure" => timer' = timer
       /\ op = "lap" /\ op' = "lap" =>
            Canon(timer'.elapsed) =
                PlusInterval(Canon(timer.elapsed), timer.end, timer.start)]_vars

\* ctimer_measure has been called after a stop whose interval needs the
\* borrow, and elapsed is the borrowed difference.
C12_Witness ==
    /\ op = "measure"
    /\ clock = timer.end
    /\ timer.start.tv_sec < timer.end.tv_sec
    /\ timer.end.tv_nsec < timer.start.tv_nsec
    /\ timer.elapsed = Timespec(timer.end.tv_sec - timer.start.tv_sec - 1,
                                timer.end.tv_nsec - timer.start.tv_nsec + NSEC_PER_SEC)

\* C13: ctimer_reset sets elapsed to 0 and leaves start and end unchanged, from
\* any stopwatch state.
C13_ResetFrame ==
    [][op' = "reset" =>
          /\ timer'.elapsed = Zero
          /\ timer'.start = timer.start
          /\ timer'.end = timer.end]_vars

\* ctimer_reset has been called on a stopwatch whose start and end are set.
C13_Witness ==
    /\ op = "reset"
    /\ timer.elapsed = Zero
    /\ timer.start # Zero
    /\ timer.end # Zero
    /\ timer.start # timer.end

\* C14: without CTIMER_MEASURE_ON_STOP, ctimer_start changes only start (to the
\* new reading of the clock) and ctimer_stop changes only end.
C14_StartStopFrame ==
    [][~on_stop =>
          /\ op' = "start" =>
                /\ timer'.start = clock'
                /\ timer'.end = timer.end
                /\ timer'.elapsed = timer.elapsed
          /\ op' = "stop" =>
                /\ timer'.end = clock'
                /\ timer'.start = timer.start
                /\ timer'.elapsed = timer.elapsed]_vars

\* Without the macro the stopwatch was stopped after it was started, and
\* elapsed is not the interval.
C14_Witness ==
    /\ ~on_stop
    /\ op = "stop"
    /\ acc.st = "stopped"
    /\ timer.start # timer.end
    /\ Canon(timer.elapsed) # Interval

\* ctimer_stop with the macro leaves what ctimer_stop then ctimer_measure leave
\* without it: elapsed is timespec_sub of end and start.
StopMeasures ==
    (on_stop /\ op = "stop") \/ (~on_stop /\ op = "measure") =>
        timer.elapsed = timespec_sub(timer.end, timer.start)

\* C15: with CTIMER_MEASURE_ON_STOP, ctimer_stop alone leaves the stopwatch as
\* ctimer_stop followed by ctimer_measure leave it without the macro, so both
\* variants of fib's driver report the elapsed time end - start of their clock
\* readings.
C15_DriversAgree ==
    /\ StopMeasures
    /\ dpc \in {"done", "rejected"} =>
          report = <<timespec_sub(timer.end, timer.start)>>

\* Worker w is about to execute the cilk_sync (or the end of the cilk_scope)
\* of the frame it runs.
AtSync(w) ==
    /\ wcur[w] # NoFrame
    /\ \/ prog = "fib" /\ frames[wcur[w]].pc = "sync"
       \/ IsQsort /\ frames[wcur[w]].pc = "sync"
       \/ prog = "nqueens" /\ frames[wcur[w]].pc = "loop" /\ frames[wcur[w]].i >= input

AfterSync == IF prog = "nqueens" THEN "sum" ELSE "ret"

\* C16: a sync with nothing outstanding does not wait and changes no state.
\* When a worker executes the sync of a frame with no child outstanding (no
\* spawn issued, or every spawned child completed), the frame goes on to the
\* statement after the sync on the same worker, and nothing else changes; an
\* nqueens frame that issued no spawn returns 0.
C16_SyncNoOp ==
    [][\A w \in Workers :
          LET f == wcur[w] IN
          /\ AtSync(w) /\ frames[f].pending = 0 /\ frames'[f] # frames[f] =>
                /\ frames' = [frames EXCEPT ![f].pc = AfterSync]
                /\ wcur' = wcur
                /\ deque' = deque
                /\ arr' = arr
                /\ result' = result
          /\ f # NoFrame /\ prog = "nqueens" /\ frames[f].pc = "sum"
                /\ frames[f].nsp = 0 /\ frames'[f].st = "done" =>
                frames'[f].rv = 0]_vars

\* An nqueens frame that issued no spawn has passed its sync and is running
\* its summing loop.
C16_Witness ==
    /\ prog = "nqueens"
    /\ \E f \in Live : /\ frames[f].pc = "sum"
                       /\ frames[f].nsp = 0
                       /\ frames[f].st = "run"
                       /\ \E w \in Workers : wcur[w] = f

\* The non-decreasing arrangement of a: its i-th element is the value v with
\* fewer than i elements below v and at least i elements not above v.
SortOf(a) ==
    [i \in 1..Len(a) |->
        CHOOSE v \in {a[k] : k \in 1..Len(a)} :
            /\ Cardinality({k \in 1..Len(a) : a[k] < v}) < i
            /\ Cardinality({k \in 1..Len(a) : a[k] <= v}) >= i]

\* C17: sample_qsort with cilk_scope (qsort_wsp.c) and sample_qsort with a
\* trailing cilk_sync are equivalent.  In both variants a frame that is past
\* its join point (the end of the scope, the cilk_sync) or has returned has no
\* spawned child outstanding, and in both variants the final array of every
\* schedule is the same function of the input, its sorted arrangement, so the
\* two sets of reachable final arrays coincide.
C17_IdiomsEquivalent ==
    \A variant \in {"qsort", "qsort_wsp"} :
        prog = variant =>
            /\ \A f \in Live :
                  frames[f].pc \in {"ret", "done"} =>
                      /\ frames[f].pending = 0
                      /\ \A c \in SpawnedChildren(f) : frames[c].st = "done"
            /\ Finished => arr = SortOf(input)

\* In the cilk_scope variant a frame whose continuation was stolen has passed
\* the end of its scope, its spawned child having sorted a range of at least
\* two elements.
C17_Witness ==
    /\ prog = "qsort_wsp"
    /\ \E f \in Live :
          /\ frames[f].pc = "ret"
          /\ frames[f].nstl > 0
          /\ frames[f].end - frames[f].middle > 2

\* T = tv_sec * 1,000,000,000 + tv_nsec of the converted time stamp.
TotalNsec == conv.t.tv_sec * 1000000000 + conv.t.tv_nsec

\* C18: the integer conversions truncate and never round: for tv_sec >= 0 and
\* 0 <= tv_nsec < 1,000,000,000, timespec_msec(t) = floor(T / 1,000,000),
\* timespec_usec(t) = floor(T / 1,000) and timespec_nsec(t) = T, where q is
\* floor(T / d) when q * d <= T < (q + 1) * d.
C18_ConversionsTruncate ==
    conv.pc = "done" =>
        /\ conv.msec * 1000000 <= TotalNsec
        /\ TotalNsec - conv.msec * 1000000 < 1000000
        /\ conv.usec * 1000 <= TotalNsec
        /\ TotalNsec - conv.usec * 1000 < 1000
        /\ conv.nsec = TotalNsec

\* A time stamp of 1.9999995 s has been converted: rounding would give 2000 ms
\* and 2000000 us.
C18_Witness ==
    /\ conv.pc = "done"
    /\ conv.t = Timespec(1, 999999500)
    /\ conv.msec = 1999
    /\ conv.usec = 1999999

\* Every element of a[i .. k-1] is below p; none is.
AllBelow(a, i, k, p) == \A x \in i..(k - 1) : Elem(a, x) < p
NoneBelow(a, i, k, p) == \A x \in i..(k - 1) : Elem(a, x) >= p

\* partition(begin, end, pivot) has returned m: begin <= m <= end, the elements
\* of [begin, m) are below the pivot, those of [m, end) are not, and the range
\* holds the elements it held.
PartitionPost ==
    prog = "partition" /\ Finished =>
        LET f == frames[Root]
            m == result[1]
        IN /\ f.begin <= m
           /\ m <= f.end
           /\ AllBelow(arr, f.begin, m, f.pivot)
           /\ NoneBelow(arr, m, f.end, f.pivot)
           /\ IsPermutation(SubSeq(arr, f.begin + 1, f.end),
                            SubSeq(input, f.begin + 1, f.end))

\* sample_qsort has swapped its last element with *middle: the pivot is at
\* middle, the smaller elements of the range before it, the others after it.
PivotPlaced ==
    IsQsort =>
        \A f \in Live :
            frames[f].pc = "spawn" =>
                /\ frames[f].begin <= frames[f].middle
                /\ frames[f].middle < frames[f].end
                /\ Elem(arr, frames[f].middle) = frames[f].pivot
                /\ AllBelow(arr, frames[f].begin, frames[f].middle, frames[f].pivot)
                /\ NoneBelow(arr, frames[f].middle + 1, frames[f].end, frames[f].pivot)

\* C19: for every range and pivot value partition terminates and returns m,
\* begin <= m <= end, with the elements of [begin, m) below the pivot, those of
\* [m, end) not below it and the multiset of the range unchanged; after
\* sample_qsort has swapped its last element with *m the pivot is at index m,
\* all smaller elements before it and all elements not smaller after it.
C19_PartitionCorrect ==
    /\ [](PartitionPost /\ PivotPlaced)
    /\ (prog = "partition" => <>Finished)

\* partition has returned from a range of three elements that it split in two
\* non-empty parts and rearranged.
C19_Witness ==
    /\ prog = "partition"
    /\ Finished
    /\ frames[Root].end - frames[Root].begin = 3
    /\ frames[Root].begin < result[1]
    /\ result[1] < frames[Root].end
    /\ arr # input

\* Two workers are about to touch the same array element, one of them writing.
QsRace ==
    \E w1 \in Workers, w2 \in Workers :
        /\ w1 # w2
        /\ QsWrites(w1) \cap (QsReads(w2) \cup QsWrites(w2)) # {}

\* C20: in sample_qsort the spawned call works on [middle+1, end) and the
\* continuation's call on [begin, middle): the two ranges do not overlap, both
\* lie inside the parent's [begin, end) and each is strictly shorter than it;
\* hence no two workers ever touch the same array element with one of them
\* writing, and the recursion is never deeper than the array is long.
C20_DisjointRanges ==
    IsQsort =>
        /\ \A c \in Live :
              Len(c) > 0 =>
                  LET p == frames[Parent(c)] IN
                  /\ p.begin <= frames[c].begin
                  /\ frames[c].begin <= frames[c].end
                  /\ frames[c].end <= p.end
                  /\ frames[c].end - frames[c].begin < p.end - p.begin
                  /\ Idx(c) = 1 => frames[c].begin = p.middle + 1 /\ frames[c].end = p.end
                  /\ Idx(c) = 2 => frames[c].begin = p.begin /\ frames[c].end = p.middle
                  /\ Len(c) <= Len(input)
        /\ ~QsRace

\* Two workers run sample_qsort at the same time, each about to swap elements
\* of its own range.
C20_Witness ==
    /\ IsQsort
    /\ \E w1 \in Workers, w2 \in Workers :
          /\ w1 # w2
          /\ QsWrites(w1) # {}
          /\ QsWrites(w2) # {}

\* C22: for valid time stamps, the result d of timespec_sub is the exact
\* difference (d has the nanosecond count of t_end minus that of t_start,
\* compared as canonical time stamps), has |d.tv_nsec| < 1,000,000,000, and
\* never has tv_sec and tv_nsec of opposite signs.
C22_SubExact ==
    tpc # "sub" =>
        /\ Canon(t_diff) = Canon(Timespec(SecDiff, NsecDiff))
        /\ t_diff.tv_nsec > -NSEC_PER_SEC
        /\ t_diff.tv_nsec < NSEC_PER_SEC
        /\ ~(t_diff.tv_sec > 0 /\ t_diff.tv_nsec < 0)
        /\ ~(t_diff.tv_sec < 0 /\ t_diff.tv_nsec > 0)

\* timespec_sub has taken its negative branch: t_end is more than a second
\* earlier than t_start with the larger nanoseconds, and both fields of the
\* difference are negative.
C22_Witness ==
    /\ tpc # "sub"
    /\ SecDiff < -1
    /\ NsecDiff > 0
    /\ t_diff = Timespec(SecDiff + 1, NsecDiff - NSEC_PER_SEC)
    /\ t_diff.tv_sec < 0
    /\ t_diff.tv_nsec < 0

\* A time stamp that ctimer_print's "%ld.%09ld" writes as its value in seconds.
Normalized(t) == t.tv_sec >= 0 /\ t.tv_nsec >= 0 /\ t.tv_nsec < NSEC_PER_SEC

\* C21: once elapsed has been set by ctimer_reset or ctimer_measure, every
\* sequence of start, stop, measure, lap and reset calls in which each measure
\* and each lap follows a start/stop pair keeps elapsed normalized and
\* non-negative (tv_sec >= 0 and 0 <= tv_nsec < 1,000,000,000); the end of such
\* a pair is not earlier than its start.
C21_ElapsedNormalized ==
    /\ hist.pair = "stopped" => NotAfter(timer.start, timer.end)
    /\ hist.set => Normalized(timer.elapsed)

\* Three laps in a row after a pair whose interval needs the borrow: the
\* additions carried and elapsed is more than a second.
C21_Witness ==
    /\ hist.set
    /\ op = "lap"
    /\ nlap = 3
    /\ timer.end.tv_nsec < timer.start.tv_nsec
    /\ timer.elapsed.tv_sec >= 1
    /\ timer.elapsed.tv_nsec > 0

====
